---- MODULE Spec2Model ----
(***************************************************************************)
(* Model of strategix/core.py: Task / TaskStep, TaskPlanner.create_task,   *)
(* execute_task, _execute_step, run_execution_loop and _run_task.          *)
(*                                                                         *)
(* The planner runs on one asyncio event loop, so one action is the code   *)
(* between two suspension points of one coroutine.                         *)
(***************************************************************************)
EXTENDS Integers, Sequences, FiniteSets, TLC

VARIABLES
    config,               \* TaskPlanner.config (the keys the model follows)
    max_concurrent_tasks, \* TaskPlanner.max_concurrent_tasks
    llm_engine,           \* TaskPlanner.llm_engine: "None" or "engine"
    LANGCHAIN_AVAILABLE,  \* module global read by _generate_plan
    tasks,                \* TaskPlanner.tasks: task_id -> Task, ids 1..n in creation order
    execution_queue,      \* TaskPlanner.execution_queue: FIFO of task ids
    running_tasks,        \* TaskPlanner.running_tasks: set of task ids
    loop_pc,              \* position of run_execution_loop: "get" or "sleep"
    run,                  \* per task: the _run_task / execute_task coroutine's locals
    hung,                 \* TRUE once a coroutine spins without awaiting
    last_call             \* the latest create_task call: what the language model
                          \* answered and what the call returned or raised

vars == <<config, max_concurrent_tasks, llm_engine, LANGCHAIN_AVAILABLE, tasks,
          execution_queue, running_tasks, loop_pc, run, hung, last_call>>

(***************************************************************************)
(* Bounds of the model.                                                    *)
(***************************************************************************)
MaxTasks == 2        \* create_task calls in the scheduler specification
MaxConcurrent == 2   \* largest value of either concurrency key in config
MaxSteps == 2        \* steps added to a hand-built Task
MaxQueued == 3       \* create_task calls in the admission specification

(***************************************************************************)
(* Enumerations (core.py 18-44).                                           *)
(***************************************************************************)
PENDING == "pending"
IN_PROGRESS == "in_progress"
BLOCKED == "blocked"
COMPLETED == "completed"
FAILED == "failed"
CANCELLED == "cancelled"

TaskType ==
    {"research", "coding", "analysis", "creative", "system", "learning",
     "communication", "decision"}

None == "None"

(***************************************************************************)
(* Sequence helpers.                                                       *)
(***************************************************************************)
InSeq(x, s) == \E k \in 1..Len(s) : s[k] = x

Take(s, n) == IF Len(s) <= n THEN s ELSE SubSeq(s, 1, n)

RECURSIVE CountIf(_, _)
CountIf(s, status_set) ==
    IF s = <<>> THEN 0
    ELSE (IF Head(s).status \in status_set THEN 1 ELSE 0) + CountIf(Tail(s), status_set)

(***************************************************************************)
(* TaskStep (core.py 45-80).                                               *)
(***************************************************************************)
TaskStep(step_id, action, prerequisites, validation_criteria) ==
    [step_id |-> step_id, action |-> action, prerequisites |-> prerequisites,
     validation_criteria |-> validation_criteria, status |-> PENDING,
     result |-> None, error |-> None]

\* mutant of is_ready: prerequisites are not looked at
is_ready_always(step, completed_steps) == TRUE

is_ready(step, completed_steps) ==
    \A k \in 1..Len(step.prerequisites) : InSeq(step.prerequisites[k], completed_steps)

\* "prerequisites": null in the JSON of the plan: step_data.get (line 137)
\* finds the key and hands None to TaskStep.  Written as a list of its own,
\* holding the one entry None, which no plan uses as a step id.
NullPrerequisites == <<None>>

\* is_ready raises TypeError: all() cannot iterate over None
is_ready_raises(step) == step.prerequisites = NullPrerequisites

mark_started(step) == [step EXCEPT !.status = IN_PROGRESS]

mark_completed(step, result) == [step EXCEPT !.status = COMPLETED, !.result = result]

\* mutant of mark_failed: the status is set, the message is dropped
mark_failed_no_message(step, error) == [step EXCEPT !.status = FAILED]

mark_failed(step, error) == [step EXCEPT !.status = FAILED, !.error = error]

(***************************************************************************)
(* Task (core.py 81-112).  A Task is [task_id, task_type, status, steps].  *)
(***************************************************************************)
Task(task_id, task_type) ==
    [task_id |-> task_id, task_type |-> task_type, status |-> PENDING, steps |-> <<>>]

add_step(task, step) == [task EXCEPT !.steps = Append(@, step)]

\* indices, in step order, of the steps get_ready_steps returns
\* get_ready_steps raises: is_ready is asked about a pending step and raises
get_ready_steps_raises(task) ==
    \E i \in 1..Len(task.steps) :
        task.steps[i].status = PENDING /\ is_ready_raises(task.steps[i])

\* mutant of get_ready_steps: the status of the step is not looked at
get_ready_steps_any_status(task, completed_step_ids) ==
    LET idx == [i \in 1..Len(task.steps) |-> i]
    IN  SelectSeq(idx, LAMBDA i : is_ready(task.steps[i], completed_step_ids))

get_ready_steps(task, completed_step_ids) ==
    LET idx == [i \in 1..Len(task.steps) |-> i]
    IN  SelectSeq(idx, LAMBDA i : /\ task.steps[i].status = PENDING
                                  /\ is_ready(task.steps[i], completed_step_ids))

\* mutant of is_complete: a failed step counts as finished
is_complete_no_open_step(task) ==
    \A i \in 1..Len(task.steps) : task.steps[i].status \in {COMPLETED, CANCELLED, FAILED}

is_complete(task) ==
    \A i \in 1..Len(task.steps) : task.steps[i].status \in {COMPLETED, CANCELLED}

\* get_progress as the fraction <<numerator, denominator>>; 0.0 is <<0, 1>>
get_progress(task) ==
    IF task.steps = <<>> THEN <<0, 1>>
    ELSE <<CountIf(task.steps, {COMPLETED, CANCELLED}), Len(task.steps)>>

ProgressIsOne(p) == p[1] = p[2]

(***************************************************************************)
(* Plans.  A plan is a sequence of step specifications, the dictionaries   *)
(* create_task reads with step_data.get.                                   *)
(***************************************************************************)
StepData(step_id, action, prerequisites, validation_criteria) ==
    [step_id |-> step_id, action |-> action, prerequisites |-> prerequisites,
     validation_criteria |-> validation_criteria]

\* _load_task_templates (core.py 127-129): template name -> the steps' actions
task_templates ==
    [code_generation |->
        <<"understand_requirements", "design_solution", "implement_code",
          "test_implementation", "refactor_optimize">>,
     problem_solving |->
        <<"analyze_problem", "identify_constraints", "generate_solutions",
          "evaluate_options", "implement_solution">>,
     research |->
        <<"define_scope", "gather_information", "analyze_findings",
          "synthesize_insights", "create_summary">>]

\* f'step_{n}'
StepId(n) == "step_" \o ToString(n)

\* _generate_default_plan (core.py 174-176)
_generate_default_plan ==
    << StepData("step_1", "analyze", <<>>, <<"Requirements understood">>),
       StepData("step_2", "execute", <<"step_1">>, <<"Task executed">>),
       StepData("step_3", "validate", <<"step_2">>, <<"Results validated">>) >>

\* template_map.get(task.task_type, 'problem_solving') (core.py 165-166)
TemplateName(task_type) ==
    CASE task_type = "coding" -> "code_generation"
      [] task_type = "research" -> "research"
      [] OTHER -> "problem_solving"

\* _generate_template_plan (core.py 163-172); k is the code's i + 1
_generate_template_plan(task_type) ==
    LET actions == task_templates[TemplateName(task_type)]
        plan == [k \in 1..Len(actions) |->
                    StepData(StepId(k), actions[k],
                             IF k > 1 THEN <<StepId(k - 1)>> ELSE <<>>,
                             <<"Completed " \o actions[k]>>)]
    IN  IF plan # <<>> THEN plan ELSE _generate_default_plan

(***************************************************************************)
(* What the language model path of _generate_plan can produce.             *)
(***************************************************************************)
\* two steps that are ready at once, then one that needs both
PlanFork ==
    << StepData("a", "collect", <<>>, <<"collected">>),
       StepData("b", "measure", <<>>, <<>>),
       StepData("c", "report", <<"a", "b">>, <<"reported">>) >>

\* two steps ready at once, nothing else
PlanPair ==
    << StepData("a", "collect", <<>>, <<"collected">>),
       StepData("b", "measure", <<>>, <<>>) >>

\* X depends on Y and Y depends on X
PlanCycle ==
    << StepData("x", "left", <<"y">>, <<"left done">>),
       StepData("y", "right", <<"x">>, <<>>) >>

\* a step that depends on itself
PlanSelf == << StepData("x", "left", <<"x">>, <<>>) >>

\* a prerequisite that names no step of the plan
PlanDangling ==
    << StepData("a", "collect", <<>>, <<>>),
       StepData("b", "measure", <<"ghost">>, <<>>) >>

\* one step, no validation criteria
PlanSingle == << StepData("a", "collect", <<>>, <<>>) >>

\* a plan whose second step carries null prerequisites
PlanNull ==
    << StepData("a", "collect", <<>>, <<>>),
       StepData("b", "measure", NullPrerequisites, <<>>) >>

LLMPlans == {PlanFork, PlanPair, PlanCycle, PlanSelf, PlanDangling, PlanSingle, PlanNull}

\* outcomes of lines 149-158: no llm selected, the chain raising, a response
\* that is not JSON, JSON that is no list, an empty list, a non-empty list
LLMResponses ==
    {[kind |-> k, plan |-> <<>>] : k \in {"no_llm", "raise", "bad_json", "not_list", "empty"}}
    \cup {[kind |-> "list", plan |-> p] : p \in LLMPlans}

NoResponse == [kind |-> "no_llm", plan |-> <<>>]

\* _generate_plan (core.py 145-161).  The module never binds LANGCHAIN_AVAILABLE:
\* with an engine configured, reading it unbound raises NameError.
_generate_plan(task_type, response) ==
    IF llm_engine # None /\ LANGCHAIN_AVAILABLE = "unbound"
    THEN [raised |-> "NameError", plan |-> <<>>]
    ELSE IF llm_engine # None /\ LANGCHAIN_AVAILABLE = "True"
            /\ response.kind = "list" /\ response.plan # <<>>
    THEN [raised |-> None, plan |-> response.plan]
    ELSE [raised |-> None, plan |-> _generate_template_plan(task_type)]

(***************************************************************************)
(* The locals of one _run_task / execute_task coroutine.                   *)
(***************************************************************************)
NoStepTask == [state |-> "none", result |-> None, exc |-> None]

NewRun(n) ==
    [pc |-> "queued", completed_steps |-> <<>>, results |-> <<>>, batch |-> <<>>,
     awaiting |-> 0, step_task |-> [i \in 1..n |-> NoStepTask]]

RECURSIVE AddSteps(_, _)
\* the for loop of create_task (core.py 137-139)
AddSteps(task, plan) ==
    IF plan = <<>> THEN task
    ELSE AddSteps(add_step(task, TaskStep(Head(plan).step_id, Head(plan).action,
                                          Head(plan).prerequisites,
                                          Head(plan).validation_criteria)),
                  Tail(plan))

\* create_task (core.py 131-143); the uuid is the next unused number
create_task(task_type, response) ==
    LET task_id == Len(tasks) + 1
        generated == _generate_plan(task_type, response)
        task == AddSteps(Task(task_id, task_type), generated.plan)
    IN  IF generated.raised # None
        THEN /\ last_call' = [kind |-> "raise", error |-> generated.raised, task_id |-> 0,
                           response |-> response.kind]
             /\ UNCHANGED <<tasks, execution_queue, run>>
        ELSE /\ tasks' = Append(tasks, task)
             /\ execution_queue' = Append(execution_queue, task_id)
             /\ run' = Append(run, NewRun(Len(task.steps)))
             /\ last_call' = [kind |-> "task", error |-> None, task_id |-> task_id,
                           response |-> response.kind]

(***************************************************************************)
(* Step Runner (core.py 207-226).                                          *)
(***************************************************************************)
\* what a step's executor (the strategy of line 212) does
Return(value) == [kind |-> "return", value |-> value]
Raise(message) == [kind |-> "raise", value |-> message]

ExecutorOutcomes == {Return("done"), Return(None), Raise("boom")}
ExecutorOutcomesNoNull == {Return("done"), Raise("boom")}

\* _validate_step
_validate_step(step, result) ==
    IF step.validation_criteria = <<>> THEN TRUE ELSE result # None

\* _execute_step after the strategy has answered (lines 213-220): the step
StepAfterExecutor(step, outcome) ==
    IF outcome.kind = "raise" THEN mark_failed(step, outcome.value)
    ELSE IF _validate_step(step, outcome.value) THEN mark_completed(step, outcome.value)
    ELSE mark_failed(step, "Validation failed")

\* ... and the finished asyncio task: line 217 returns the result also when
\* validation failed, line 220 re-raises
StepTaskAfterExecutor(outcome) ==
    IF outcome.kind = "raise"
    THEN [state |-> "done", result |-> None, exc |-> outcome.value]
    ELSE [state |-> "done", result |-> outcome.value, exc |-> None]

(***************************************************************************)
(* Task Executor (core.py 178-205).                                        *)
(***************************************************************************)
\* ready_steps[:self.max_concurrent_tasks] (line 192)
BatchOf(ready_steps) == Take(ready_steps, max_concurrent_tasks)

RECURSIVE CollectAbortOnRaise(_, _)
\* mutant of Collect: a raising step ends the for loop, its batch-mates are
\* not awaited
CollectAbortOnRaise(task, r) ==
    IF r.awaiting > Len(r.batch) THEN [task |-> task, run |-> r]
    ELSE LET i == r.batch[r.awaiting]
             st == r.step_task[i]
             step == task.steps[i]
         IN  IF st.state # "done" THEN [task |-> task, run |-> r]
             ELSE IF st.exc = None
             THEN CollectAbortOnRaise(task,
                          [r EXCEPT !.results = Append(@, <<step.step_id, st.result>>),
                                    !.completed_steps = Append(@, step.step_id),
                                    !.awaiting = @ + 1])
             ELSE [task |-> [task EXCEPT !.steps[i] = mark_failed(step, st.exc)],
                   run |-> [r EXCEPT !.awaiting = Len(r.batch) + 1]]

RECURSIVE Collect(_, _)
\* the for loop of lines 195-201, as far as it gets without suspending:
\* st = [task, run]; awaiting a finished step task does not yield
Collect(task, r) ==
    IF r.awaiting > Len(r.batch) THEN [task |-> task, run |-> r]
    ELSE LET i == r.batch[r.awaiting]
             st == r.step_task[i]
             step == task.steps[i]
         IN  IF st.state # "done" THEN [task |-> task, run |-> r]
             ELSE IF st.exc = None
             THEN Collect(task,
                          [r EXCEPT !.results = Append(@, <<step.step_id, st.result>>),
                                    !.completed_steps = Append(@, step.step_id),
                                    !.awaiting = @ + 1])
             ELSE Collect([task EXCEPT !.steps[i] = mark_failed(step, st.exc)],
                          [r EXCEPT !.awaiting = @ + 1])

HasPending(task) == \E i \in 1..Len(task.steps) : task.steps[i].status = PENDING

\* one evaluation of the while loop from line 184 to its first suspension
\* (line 197), or to the return of line 205, or into the iteration that
\* dispatches nothing and changes nothing (pc "spin"), or to the exception
\* that line 185 lets through (pc "raised")
LoopHead(task, r) ==
    IF is_complete(task)
    THEN [task |-> [task EXCEPT !.status = COMPLETED], run |-> [r EXCEPT !.pc = "done"]]
    ELSE IF get_ready_steps_raises(task)
    THEN [task |-> task, run |-> [r EXCEPT !.pc = "raised"]]
    ELSE LET ready_steps == get_ready_steps(task, r.completed_steps)
         IN  IF ready_steps = <<>> /\ HasPending(task)
             THEN [task |-> [task EXCEPT !.status = BLOCKED], run |-> [r EXCEPT !.pc = "done"]]
             ELSE IF ready_steps = <<>>
             THEN [task |-> task, run |-> [r EXCEPT !.pc = "spin"]]
             ELSE LET batch == BatchOf(ready_steps)
                  IN  [task |-> task,
                       run |-> [r EXCEPT !.pc = "await", !.batch = batch, !.awaiting = 1,
                                  !.step_task = [i \in DOMAIN @ |->
                                      IF InSeq(i, batch)
                                      THEN [state |-> "created", result |-> None, exc |-> None]
                                      ELSE @[i]]]]

\* mutant of Settle: no finally clause, the registry entry is removed only
\* after a run that completed the task
SettleNoFinally(t, st) ==
    /\ tasks' = [tasks EXCEPT ![t] =
                    IF st.run.pc = "raised" THEN [st.task EXCEPT !.status = FAILED]
                    ELSE st.task]
    /\ run' = [run EXCEPT ![t] =
                    IF st.run.pc = "raised" THEN [st.run EXCEPT !.pc = "done"]
                    ELSE st.run]
    /\ running_tasks' = IF st.run.pc = "done" /\ st.task.status = COMPLETED
                        THEN running_tasks \ {t} ELSE running_tasks
    /\ hung' = (st.run.pc = "spin")

\* the effect of an execute_task segment that ended in state st on the planner:
\* when it returned, _run_task's finally (line 319); when it raised, the
\* except branch (lines 315-317) and then the finally, after which _run_task
\* is done as well; when it spins, the event loop is lost.
Settle(t, st) ==
    /\ tasks' = [tasks EXCEPT ![t] =
                    IF st.run.pc = "raised" THEN [st.task EXCEPT !.status = FAILED]
                    ELSE st.task]
    /\ run' = [run EXCEPT ![t] =
                    IF st.run.pc = "raised" THEN [st.run EXCEPT !.pc = "done"]
                    ELSE st.run]
    /\ running_tasks' = IF st.run.pc \in {"done", "raised"}
                        THEN running_tasks \ {t} ELSE running_tasks
    /\ hung' = (st.run.pc = "spin")

\* _run_task starts: execute_task lines 180-183, then the loop
RunTaskStart(t) ==
    /\ ~hung
    /\ run[t].pc = "spawned"
    /\ Settle(t, LoopHead([tasks[t] EXCEPT !.status = IN_PROGRESS],
                          [run[t] EXCEPT !.completed_steps = <<>>, !.results = <<>>]))
    /\ UNCHANGED <<config, max_concurrent_tasks, llm_engine, LANGCHAIN_AVAILABLE,
                   execution_queue, loop_pc, last_call>>

\* the first created step task of the batch gets its first turn: line 209,
\* then it waits for its executor
StepStart(t) ==
    /\ ~hung
    /\ run[t].pc = "await"
    /\ \E k \in 1..Len(run[t].batch) :
          LET i == run[t].batch[k]
          IN  /\ run[t].step_task[i].state = "created"
              /\ \A j \in 1..(k - 1) : run[t].step_task[run[t].batch[j]].state # "created"
              /\ tasks' = [tasks EXCEPT ![t].steps[i] = mark_started(@)]
              /\ run' = [run EXCEPT ![t].step_task[i].state = "running"]
    /\ UNCHANGED <<config, max_concurrent_tasks, llm_engine, LANGCHAIN_AVAILABLE,
                   execution_queue, running_tasks, loop_pc, hung, last_call>>

\* a running step's executor answers: lines 213-220
StepFinish(t, i, outcome) ==
    /\ ~hung
    /\ run[t].pc = "await"
    /\ run[t].step_task[i].state = "running"
    /\ tasks' = [tasks EXCEPT ![t].steps[i] = StepAfterExecutor(@, outcome)]
    /\ run' = [run EXCEPT ![t].step_task[i] = StepTaskAfterExecutor(outcome)]
    /\ UNCHANGED <<config, max_concurrent_tasks, llm_engine, LANGCHAIN_AVAILABLE,
                   execution_queue, running_tasks, loop_pc, hung, last_call>>

\* execute_task wakes up because the step task it awaits is done
ExecResume(t) ==
    /\ ~hung
    /\ run[t].pc = "await"
    /\ run[t].step_task[run[t].batch[run[t].awaiting]].state = "done"
    /\ LET st == Collect(tasks[t], run[t])
       IN  IF st.run.awaiting > Len(st.run.batch)
           THEN Settle(t, LoopHead(st.task, st.run))
           ELSE Settle(t, st)
    /\ UNCHANGED <<config, max_concurrent_tasks, llm_engine, LANGCHAIN_AVAILABLE,
                   execution_queue, loop_pc, last_call>>

(***************************************************************************)
(* Scheduler (core.py 295-319).                                            *)
(***************************************************************************)
\* mutant of AtCapacity: off by one
AtCapacityOffByOne == Cardinality(running_tasks) > max_concurrent_tasks

\* line 300
AtCapacity == Cardinality(running_tasks) >= max_concurrent_tasks

\* mutant of LoopAdmit: the newest task of the queue is taken
LoopAdmitNewest ==
    /\ ~hung
    /\ loop_pc = "get"
    /\ execution_queue # <<>>
    /\ ~AtCapacity
    /\ LET t == execution_queue[Len(execution_queue)]
       IN  /\ execution_queue' = Take(execution_queue, Len(execution_queue) - 1)
           /\ running_tasks' = running_tasks \cup {t}
           /\ run' = [run EXCEPT ![t].pc = "spawned"]
    /\ UNCHANGED <<config, max_concurrent_tasks, llm_engine, LANGCHAIN_AVAILABLE,
                   tasks, loop_pc, hung, last_call>>

\* lines 299-305, below the bound: register the task and spawn _run_task.
\* The body of the loop raises nothing, so lines 306-308 have no action.
LoopAdmit ==
    /\ ~hung
    /\ loop_pc = "get"
    /\ execution_queue # <<>>
    /\ ~AtCapacity
    /\ LET t == Head(execution_queue)
       IN  /\ execution_queue' = Tail(execution_queue)
           /\ running_tasks' = running_tasks \cup {t}
           /\ run' = [run EXCEPT ![t].pc = "spawned"]
    /\ UNCHANGED <<config, max_concurrent_tasks, llm_engine, LANGCHAIN_AVAILABLE,
                   tasks, loop_pc, hung, last_call>>

\* mutant of LoopRequeue: the task taken at the bound is not put back
LoopRequeueDrops ==
    /\ ~hung
    /\ loop_pc = "get"
    /\ execution_queue # <<>>
    /\ AtCapacity
    /\ execution_queue' = Tail(execution_queue)
    /\ loop_pc' = "sleep"
    /\ UNCHANGED <<config, max_concurrent_tasks, llm_engine, LANGCHAIN_AVAILABLE,
                   tasks, running_tasks, run, hung, last_call>>

\* lines 299-303, at the bound: put the task back and sleep
LoopRequeue ==
    /\ ~hung
    /\ loop_pc = "get"
    /\ execution_queue # <<>>
    /\ AtCapacity
    /\ execution_queue' = Append(Tail(execution_queue), Head(execution_queue))
    /\ loop_pc' = "sleep"
    /\ UNCHANGED <<config, max_concurrent_tasks, llm_engine, LANGCHAIN_AVAILABLE,
                   tasks, running_tasks, run, hung, last_call>>

\* the sleep of line 302 is over
LoopWake ==
    /\ ~hung
    /\ loop_pc = "sleep"
    /\ loop_pc' = "get"
    /\ UNCHANGED <<config, max_concurrent_tasks, llm_engine, LANGCHAIN_AVAILABLE,
                   tasks, execution_queue, running_tasks, run, hung, last_call>>

\* a caller awaits create_task
CreateTask(task_type, response) ==
    /\ ~hung
    /\ create_task(task_type, response)
    /\ UNCHANGED <<config, max_concurrent_tasks, llm_engine, LANGCHAIN_AVAILABLE,
                   running_tasks, loop_pc, hung>>

(***************************************************************************)
(* Status reporting (core.py 321-326).                                     *)
(***************************************************************************)
StatusOf(task) ==
    [task_id |-> task.task_id, status |-> task.status, progress |-> get_progress(task),
     steps |-> [i \in 1..Len(task.steps) |->
                   [step_id |-> task.steps[i].step_id, status |-> task.steps[i].status,
                    error |-> task.steps[i].error]]]

get_task_status(task_id) ==
    IF task_id \in DOMAIN tasks THEN StatusOf(tasks[task_id]) ELSE None

(***************************************************************************)
(* Specifications.                                                         *)
(***************************************************************************)
\* TaskPlanner.__init__ (core.py 116-122) with the given config and engine
PlannerInit(setups) ==
    /\ config \in [max_concurrent_tasks : 1..MaxConcurrent,
                   max_concurrent_steps : 1..MaxConcurrent]
    /\ max_concurrent_tasks = config.max_concurrent_tasks
    /\ \E setup \in setups : llm_engine = setup[1] /\ LANGCHAIN_AVAILABLE = setup[2]
    /\ tasks = <<>>
    /\ execution_queue = <<>>
    /\ running_tasks = {}
    /\ loop_pc = "get"
    /\ run = <<>>
    /\ hung = FALSE
    /\ last_call = [kind |-> "none", error |-> None, task_id |-> 0, response |-> None]

\* Scheduler specification: a default planner (no engine), create_task with its
\* default category, up to MaxTasks tasks, executors that return or raise.
Init == PlannerInit({<<None, "unbound">>})

Create == Len(tasks) < MaxTasks /\ CreateTask("analysis", NoResponse)

Started == \E t \in DOMAIN tasks : RunTaskStart(t)

Stepped == \E t \in DOMAIN tasks : StepStart(t)

Finished ==
    \E t \in DOMAIN tasks : \E i \in DOMAIN run[t].step_task :
        \E o \in ExecutorOutcomesNoNull : StepFinish(t, i, o)

Resumed == \E t \in DOMAIN tasks : ExecResume(t)

Next ==
    \/ Create
    \/ LoopAdmit
    \/ LoopRequeue
    \/ LoopWake
    \/ Started
    \/ Stepped
    \/ Finished
    \/ Resumed

Spec == Init /\ [][Next]_vars

\* the asyncio scheduler runs every ready callback, and executors answer
FairSpec ==
    /\ Spec
    /\ WF_vars(LoopAdmit) /\ WF_vars(LoopRequeue) /\ WF_vars(LoopWake)
    /\ \A t \in 1..MaxTasks :
          /\ WF_vars(t \in DOMAIN tasks /\ RunTaskStart(t))
          /\ WF_vars(t \in DOMAIN tasks /\ StepStart(t))
          /\ WF_vars(t \in DOMAIN tasks /\ ExecResume(t))
          /\ WF_vars(t \in DOMAIN tasks /\ \E i \in DOMAIN run[t].step_task :
                                              StepFinish(t, i, Return("done")))

\* Admission specification: the scheduler specification with up to MaxQueued
\* tasks and executors that raise, so that every run ends after its first
\* step and the behaviours differ in the order of admission.
CreateQueued == Len(tasks) < MaxQueued /\ CreateTask("analysis", NoResponse)

Raised ==
    \E t \in DOMAIN tasks : \E i \in DOMAIN run[t].step_task :
        StepFinish(t, i, Raise("boom"))

NextQueue ==
    \/ CreateQueued
    \/ LoopAdmit
    \/ LoopRequeue
    \/ LoopWake
    \/ Started
    \/ Stepped
    \/ Raised
    \/ Resumed

SpecQueue == Init /\ [][NextQueue]_vars

\* the asyncio scheduler runs every ready callback, and executors answer
FairSpecQueue ==
    /\ SpecQueue
    /\ WF_vars(LoopAdmit) /\ WF_vars(LoopRequeue) /\ WF_vars(LoopWake)
    /\ \A t \in 1..MaxQueued :
          /\ WF_vars(t \in DOMAIN tasks /\ RunTaskStart(t))
          /\ WF_vars(t \in DOMAIN tasks /\ StepStart(t))
          /\ WF_vars(t \in DOMAIN tasks /\ ExecResume(t))
          /\ WF_vars(t \in DOMAIN tasks /\ \E i \in DOMAIN run[t].step_task :
                                              StepFinish(t, i, Raise("boom")))

\* Task specification: one task of any category and any plan the planner can
\* be given, run by the scheduler with executors that return a value, return
\* nothing, or raise.  With one task the loop is never at its bound.
Setups ==
    {<<None, "unbound">>, <<"engine", "unbound">>, <<"engine", "True">>, <<"engine", "False">>}

InitExec == PlannerInit(Setups)

CreateOne ==
    /\ tasks = <<>>
    /\ \E task_type \in TaskType : \E response \in LLMResponses :
          CreateTask(task_type, response)

FinishedAny ==
    \E t \in DOMAIN tasks : \E i \in DOMAIN run[t].step_task :
        \E o \in ExecutorOutcomes : StepFinish(t, i, o)

NextExec ==
    \/ CreateOne
    \/ LoopAdmit
    \/ Started
    \/ Stepped
    \/ FinishedAny
    \/ Resumed

SpecExec == InitExec /\ [][NextExec]_vars

\* Data specification: a caller builds one Task (tasks[1]) step by step and
\* its steps go through the TaskStep methods; the planner stays idle.
StepIds == {StepId(n) : n \in 1..MaxSteps}

InitTask ==
    /\ config = [max_concurrent_tasks |-> 1, max_concurrent_steps |-> 1]
    /\ max_concurrent_tasks = config.max_concurrent_tasks
    /\ llm_engine = None
    /\ LANGCHAIN_AVAILABLE = "unbound"
    /\ tasks = <<Task(1, "analysis")>>
    /\ execution_queue = <<>>
    /\ running_tasks = {}
    /\ loop_pc = "get"
    /\ run = <<NewRun(0)>>
    /\ hung = FALSE
    /\ last_call = [kind |-> "none", error |-> None, task_id |-> 0, response |-> None]

Idle ==
    UNCHANGED <<config, max_concurrent_tasks, llm_engine, LANGCHAIN_AVAILABLE,
                execution_queue, running_tasks, loop_pc, run, hung, last_call>>

AddStep ==
    /\ Len(tasks[1].steps) < MaxSteps
    /\ \E prerequisites \in {<<>>} \cup {<<p>> : p \in StepIds} :
          tasks' = [tasks EXCEPT ![1] =
                       add_step(@, TaskStep(StepId(Len(@.steps) + 1), "work",
                                            prerequisites, <<>>))]
    /\ Idle

MarkStarted ==
    /\ \E i \in 1..Len(tasks[1].steps) :
          /\ tasks[1].steps[i].status = PENDING
          /\ tasks' = [tasks EXCEPT ![1].steps[i] = mark_started(@)]
    /\ Idle

MarkCompleted ==
    /\ \E i \in 1..Len(tasks[1].steps) :
          /\ tasks[1].steps[i].status = IN_PROGRESS
          /\ tasks' = [tasks EXCEPT ![1].steps[i] = mark_completed(@, "done")]
    /\ Idle

MarkFailed ==
    /\ \E i \in 1..Len(tasks[1].steps) :
          /\ tasks[1].steps[i].status = IN_PROGRESS
          /\ tasks' = [tasks EXCEPT ![1].steps[i] = mark_failed(@, "boom")]
    /\ Idle

\* a caller cancels a step that has not ended: step.status = TaskStatus.CANCELLED
CancelStep ==
    /\ \E i \in 1..Len(tasks[1].steps) :
          /\ tasks[1].steps[i].status \in {PENDING, IN_PROGRESS}
          /\ tasks' = [tasks EXCEPT ![1].steps[i].status = CANCELLED]
    /\ Idle

NextTask ==
    \/ AddStep
    \/ MarkStarted
    \/ MarkCompleted
    \/ MarkFailed
    \/ CancelStep

SpecTask == InitTask /\ [][NextTask]_vars

(***************************************************************************)
(* Properties.                                                             *)
(***************************************************************************)
StepsIn(task, status_set) ==
    {i \in 1..Len(task.steps) : task.steps[i].status \in status_set}

\* every step the prerequisite names has ended completed or cancelled
PrerequisiteDone(task, prereq) ==
    \E j \in 1..Len(task.steps) :
        /\ task.steps[j].step_id = prereq
        /\ task.steps[j].status \in {COMPLETED, CANCELLED}

\* C1: a step with prerequisites is in_progress only if every prerequisite it
\* lists is completed or cancelled, whatever the executors return or raise.
C1_StartsAfterPrerequisites ==
    \A t \in DOMAIN tasks : \A i \in StepsIn(tasks[t], {IN_PROGRESS}) :
        \A k \in 1..Len(tasks[t].steps[i].prerequisites) :
            PrerequisiteDone(tasks[t], tasks[t].steps[i].prerequisites[k])

\* C2: execute_task never enters a loop iteration that neither dispatches nor
\* ends the loop, and when it has returned the task is completed, blocked or
\* failed.
C2_ExecuteTaskTerminates ==
    \A t \in DOMAIN tasks :
        /\ run[t].pc # "spin"
        /\ run[t].pc = "done" => tasks[t].status \in {COMPLETED, BLOCKED, FAILED}

\* a task with steps, none of which has an empty prerequisite list
NoRootStep(task) ==
    /\ task.steps # <<>>
    /\ \A i \in 1..Len(task.steps) : task.steps[i].prerequisites # <<>>

\* C3: a task in which no step has an empty prerequisite list (X needs Y, Y
\* needs X) is run to its end in one go, without suspending or spinning; it
\* ends blocked, every step stays pending and it is never completed.
C3_CycleEndsBlocked ==
    \A t \in DOMAIN tasks :
        NoRootStep(tasks[t]) =>
            /\ StepsIn(tasks[t], {PENDING}) = DOMAIN tasks[t].steps
            /\ run[t].pc \in {"queued", "spawned", "done"}
            /\ run[t].pc = "done" => tasks[t].status = BLOCKED
            /\ run[t].pc # "done" => tasks[t].status = PENDING

C3_Witness ==
    \E t \in DOMAIN tasks :
        /\ Len(tasks[t].steps) = 2
        /\ tasks[t].steps[1].prerequisites = <<tasks[t].steps[2].step_id>>
        /\ tasks[t].steps[2].prerequisites = <<tasks[t].steps[1].step_id>>
        /\ run[t].pc = "done"
        /\ tasks[t].status = BLOCKED

InProgressTasks == {t \in DOMAIN tasks : tasks[t].status = IN_PROGRESS}

\* C4: never more than max_concurrent_tasks tasks are registered as running,
\* nor in status in_progress.
C4_RunningTasksBounded ==
    /\ Cardinality(running_tasks) <= max_concurrent_tasks
    /\ Cardinality(InProgressTasks) <= max_concurrent_tasks

\* more tasks submitted than the bound, the bound reached, one task put back
C4_Witness ==
    /\ Len(tasks) > max_concurrent_tasks
    /\ Cardinality(InProgressTasks) = max_concurrent_tasks
    /\ Cardinality(running_tasks) = max_concurrent_tasks
    /\ execution_queue # <<>>
    /\ loop_pc = "sleep"

\* C5: within one task, never more than config.max_concurrent_steps steps are
\* in_progress at once.
C5_StepsBoundedPerTask ==
    \A t \in DOMAIN tasks :
        Cardinality(StepsIn(tasks[t], {IN_PROGRESS})) <= config.max_concurrent_steps

\* C6: a step whose executor raised is failed, its error is the raised
\* message, and get_task_status shows it so, from the raise on.
C6_RaisedStepIsFailed ==
    \A t \in DOMAIN tasks : \A i \in DOMAIN run[t].step_task :
        run[t].step_task[i].exc # None =>
            /\ tasks[t].steps[i].status = FAILED
            /\ tasks[t].steps[i].error = run[t].step_task[i].exc
            /\ get_task_status(t).steps[i].status = FAILED
            /\ get_task_status(t).steps[i].error = run[t].step_task[i].exc

\* the executor raised and execute_task has gone past the step
C6_Witness ==
    \E t \in DOMAIN tasks : \E i \in DOMAIN run[t].step_task :
        /\ run[t].step_task[i].exc = "boom"
        /\ run[t].pc = "done"
        /\ get_task_status(t).steps[i].error = "boom"

HasFailedStep(t) == t \in DOMAIN tasks /\ StepsIn(tasks[t], {FAILED}) # {}

\* C7: a task with a failed step does not stop the scheduler: another task
\* waiting in the queue while fewer than max_concurrent_tasks tasks run is
\* eventually admitted.
C7_WaitingTaskEventuallyAdmitted ==
    \A t \in 1..MaxTasks :
        [](( /\ t \in DOMAIN tasks
             /\ InSeq(t, execution_queue)
             /\ Cardinality(running_tasks) < max_concurrent_tasks
             /\ \E u \in (1..MaxTasks) \ {t} : HasFailedStep(u) )
           => <>(t \in DOMAIN tasks /\ run[t].pc # "queued"))

\* C8: get_progress is between 0 and 1, is 0 for a task without steps, and is
\* 1 exactly when is_complete holds.
C8_ProgressOneIffComplete ==
    \A t \in DOMAIN tasks :
        LET p == get_progress(tasks[t])
        IN  /\ 0 <= p[1] /\ p[1] <= p[2]
            /\ tasks[t].steps = <<>> => p = <<0, 1>>
            /\ ProgressIsOne(p) <=> is_complete(tasks[t])

\* the plan a task was assembled from
PlanOf(task) ==
    [i \in 1..Len(task.steps) |->
        StepData(task.steps[i].step_id, task.steps[i].action,
                 task.steps[i].prerequisites, task.steps[i].validation_criteria)]

\* the language model gave no usable plan, failed, or is not there
GeneratorGaveNothing ==
    /\ last_call.kind # "none"
    /\ \/ llm_engine = None
       \/ last_call.response # "list"

\* C9: when the generator gives nothing, create_task returns a task whose
\* steps are the default plan step_1 analyze, step_2 execute, step_3 validate.
C9_FallbackIsDefaultPlan ==
    GeneratorGaveNothing =>
        /\ last_call.kind = "task"
        /\ PlanOf(tasks[last_call.task_id]) = _generate_default_plan

HasDangling(task) ==
    \E i \in 1..Len(task.steps) : \E k \in 1..Len(task.steps[i].prerequisites) :
        /\ task.steps[i].prerequisites # NullPrerequisites
        /\ \A j \in 1..Len(task.steps) :
            task.steps[j].step_id # task.steps[i].prerequisites[k]

\* C10: a plan with a prerequisite that names no step of the plan is rejected
\* by create_task: no such task is registered or queued, and none ends blocked.
C10_DanglingPlanRejected ==
    \A t \in DOMAIN tasks : ~HasDangling(tasks[t])

\* C11: a task is completed only if every one of its steps is completed or
\* cancelled.
C11_CompletedOnlyWhenAllStepsDone ==
    \A t \in DOMAIN tasks :
        tasks[t].status = COMPLETED =>
            StepsIn(tasks[t], {COMPLETED, CANCELLED}) = DOMAIN tasks[t].steps

\* a task with several steps ran to completed
C11_Witness ==
    \E t \in DOMAIN tasks :
        /\ tasks[t].status = COMPLETED
        /\ Len(tasks[t].steps) >= 2
        /\ run[t].pc = "done"

\* the lists of completed ids get_ready_steps is tried with
CompletedIdLists == UNION {[1..n -> StepIds] : n \in 0..MaxSteps}

\* C12: get_ready_steps(completed_ids) is, in the task's step order, exactly
\* the pending steps whose prerequisites are all in completed_ids.
C12_ReadyStepsExact ==
    \A t \in DOMAIN tasks : \A completed_ids \in CompletedIdLists :
        LET ready == get_ready_steps(tasks[t], completed_ids)
        IN  /\ \A k \in 1..(Len(ready) - 1) : ready[k] < ready[k + 1]
            /\ {ready[k] : k \in 1..Len(ready)} =
                   {i \in 1..Len(tasks[t].steps) :
                       /\ tasks[t].steps[i].status = PENDING
                       /\ \A k \in 1..Len(tasks[t].steps[i].prerequisites) :
                             \E n \in 1..Len(completed_ids) :
                                 completed_ids[n] = tasks[t].steps[i].prerequisites[k]}

\* step_2 waits for step_1: ready only once step_1 is among the completed ids
C12_Witness ==
    /\ Len(tasks[1].steps) = 2
    /\ tasks[1].steps[2].prerequisites = <<"step_1">>
    /\ get_ready_steps(tasks[1], <<>>) = <<1>>
    /\ get_ready_steps(tasks[1], <<"step_1">>) = <<1, 2>>

RecordedIds(r) == {r.results[k][1] : k \in 1..Len(r.results)}

\* C13: a step with validation criteria whose executor returned nothing is
\* failed, and its id enters neither completed_steps nor the results.
C13_FailedValidationNotRecorded ==
    \A t \in DOMAIN tasks : \A i \in DOMAIN run[t].step_task :
        ( /\ tasks[t].steps[i].validation_criteria # <<>>
          /\ run[t].step_task[i].state = "done"
          /\ run[t].step_task[i].exc = None
          /\ run[t].step_task[i].result = None )
        => /\ tasks[t].steps[i].status = FAILED
           /\ ~InSeq(tasks[t].steps[i].step_id, run[t].completed_steps)
           /\ tasks[t].steps[i].step_id \notin RecordedIds(run[t])

\* step j lists step i as a prerequisite
Needs(task, j, i) == InSeq(task.steps[i].step_id, task.steps[j].prerequisites)

RECURSIVE DependentsFrom(_, _, _)
\* the steps that need one of `found`, directly or through other steps
DependentsFrom(task, found, n) ==
    LET more == {j \in 1..Len(task.steps) : \E i \in found : Needs(task, j, i)}
    IN  IF n = 0 \/ more \subseteq found THEN found
        ELSE DependentsFrom(task, found \cup more, n - 1)

Dependents(task, i) ==
    DependentsFrom(task, {j \in 1..Len(task.steps) : Needs(task, j, i)}, Len(task.steps))

\* C14: once a step is failed, the steps that depend on it, directly or not,
\* stay pending, and the run ends blocked (it neither spins nor completes).
C14_DependentsOfFailedStayPending ==
    \A t \in DOMAIN tasks : \A i \in StepsIn(tasks[t], {FAILED}) :
        Dependents(tasks[t], i) # {} =>
            /\ \A j \in Dependents(tasks[t], i) : tasks[t].steps[j].status = PENDING
            /\ run[t].pc # "spin"
            /\ run[t].pc = "done" => tasks[t].status = BLOCKED

\* the steps whose step task execute_task goes past when it resumes: for those
\* that raised, line 201 applies mark_failed
CollectedOnResume(t) ==
    {run[t].batch[k] : k \in run[t].awaiting..(Collect(tasks[t], run[t]).run.awaiting - 1)}

\* C15: mark_started is applied to pending steps only, mark_completed to
\* in_progress steps only, mark_failed to in_progress (or pending) steps only.
C15_MarksOnlyOnOpenSteps ==
    [][\A t \in DOMAIN tasks :
          /\ StepStart(t) =>
                \A i \in DOMAIN run[t].step_task :
                    (run[t].step_task[i].state = "created"
                        /\ run'[t].step_task[i].state = "running")
                    => tasks[t].steps[i].status = PENDING
          /\ \A i \in DOMAIN run[t].step_task : \A o \in ExecutorOutcomes :
                StepFinish(t, i, o) => tasks[t].steps[i].status = IN_PROGRESS
          /\ ExecResume(t) =>
                \A i \in CollectedOnResume(t) :
                    run[t].step_task[i].exc # None
                    => tasks[t].steps[i].status \in {PENDING, IN_PROGRESS}]_vars

\* step i is in the batch execute_task is waiting for and not yet collected
Awaited(t, i) ==
    /\ run[t].pc = "await"
    /\ \E k \in run[t].awaiting..Len(run[t].batch) : run[t].batch[k] = i

\* C16: all step tasks of a batch exist before execute_task waits; the ready
\* set is computed only with no step in_progress (outside a wait no step
\* runs, inside a wait only steps of the current batch do); and every step
\* task that returned and was gone past is recorded, also next to one that
\* raised.
C16_BatchJoinedBeforeNextReadySet ==
    \A t \in DOMAIN tasks :
        /\ run[t].pc # "await" => StepsIn(tasks[t], {IN_PROGRESS}) = {}
        /\ run[t].pc = "await" =>
              \A k \in 1..Len(run[t].batch) : run[t].step_task[run[t].batch[k]].state # "none"
        /\ \A i \in DOMAIN run[t].step_task :
              /\ ( \/ tasks[t].steps[i].status = IN_PROGRESS
                   \/ run[t].step_task[i].state \in {"created", "running"} )
                 => Awaited(t, i)
              /\ ( /\ run[t].step_task[i].state = "done"
                   /\ run[t].step_task[i].exc = None
                   /\ ~Awaited(t, i) )
                 => /\ InSeq(tasks[t].steps[i].step_id, run[t].completed_steps)
                    /\ tasks[t].steps[i].step_id \in RecordedIds(run[t])

\* a batch of two: the first raised, the second finished and was recorded
C16_Witness ==
    \E t \in DOMAIN tasks :
        /\ run[t].pc = "done"
        /\ Len(run[t].batch) = 2
        /\ run[t].step_task[run[t].batch[1]].exc = "boom"
        /\ tasks[t].steps[run[t].batch[2]].status = COMPLETED
        /\ InSeq(tasks[t].steps[run[t].batch[2]].step_id, run[t].completed_steps)

\* how far the step task of a step has come
StepTaskRank(state) ==
    CASE state = "none" -> 0 [] state = "created" -> 1
      [] state = "running" -> 2 [] state = "done" -> 3

\* C17: within one run of execute_task a step gets a step task at most once:
\* a step task is created only for a pending step that has none, it never
\* goes back to an earlier stage, a step turns in_progress only from pending,
\* and only the one step task of a step ever changes that step.
C17_StepDispatchedOnce ==
    [][\A t \in DOMAIN tasks : \A i \in DOMAIN run[t].step_task :
          LET before == run[t].step_task[i].state
              after == run'[t].step_task[i].state
          IN  /\ StepTaskRank(after) >= StepTaskRank(before)
              /\ (after = "created" /\ before # "created")
                    => before = "none" /\ tasks[t].steps[i].status = PENDING
              /\ (tasks'[t].steps[i].status = IN_PROGRESS
                     /\ tasks[t].steps[i].status # IN_PROGRESS)
                    => /\ tasks[t].steps[i].status = PENDING
                       /\ before = "created" /\ after = "running"
              /\ (tasks[t].steps[i].status \in {IN_PROGRESS, COMPLETED, FAILED}
                     /\ tasks'[t].steps[i] # tasks[t].steps[i])
                    => before \in {"running", "done"}
      ]_vars

\* a run that went through two batches: both steps ran, one after the other
C17_Witness ==
    \E t \in DOMAIN tasks :
        /\ run[t].pc = "done"
        /\ Len(run[t].completed_steps) = 2
        /\ Len(run[t].batch) = 1
        /\ \A i \in DOMAIN run[t].step_task : run[t].step_task[i].state = "done"

\* C18: a task whose _run_task is over, because execute_task returned
\* (completed or blocked) or raised (failed), is not in running_tasks; and a
\* task in running_tasks is neither completed, blocked nor failed.
C18_FinishedTaskNotRegistered ==
    \A t \in DOMAIN tasks :
        /\ run[t].pc = "done" => t \notin running_tasks
        /\ tasks[t].status \in {COMPLETED, BLOCKED, FAILED} =>
              run[t].pc = "done" /\ t \notin running_tasks
        /\ t \in running_tasks => run[t].pc \in {"spawned", "await", "spin"}

\* execute_task raised: the task is failed and gone from the registry
C18_Witness ==
    \E t \in DOMAIN tasks :
        /\ tasks[t].status = FAILED
        /\ run[t].pc = "done"
        /\ t \notin running_tasks
        /\ get_ready_steps_raises(tasks[t])

\* the loop registers task t in this step
Admitted(t) == run[t].pc = "queued" /\ run'[t].pc = "spawned"

\* C19 as stated: tasks are registered in the order of their create_task
\* calls (task ids count them): when a task is registered, no task created
\* before it is still waiting.
C19_AdmittedInCreationOrder ==
    [][\A b \in DOMAIN tasks : Admitted(b) =>
          \A a \in 1..(b - 1) : run[a].pc # "queued"]_vars

\* C19 as the code has it: the loop registers the task at the head of the
\* queue, and only below the bound; create_task appends at the tail; the only
\* other change of the queue is at the bound, where the head goes to the tail,
\* behind every task enqueued after it.
C19_AdmitsHeadRequeuesAtTail ==
    [][/\ \A b \in DOMAIN tasks : Admitted(b) =>
             /\ ~AtCapacity
             /\ b = Head(execution_queue)
             /\ execution_queue' = Tail(execution_queue)
       /\ execution_queue' # execution_queue =>
             \/ /\ Len(tasks') = Len(tasks) + 1
                /\ execution_queue' = Append(execution_queue, Len(tasks'))
             \/ /\ ~AtCapacity
                /\ Admitted(Head(execution_queue))
                /\ execution_queue' = Tail(execution_queue)
             \/ /\ AtCapacity
                /\ running_tasks' = running_tasks
                /\ execution_queue' = Append(Tail(execution_queue), Head(execution_queue))
      ]_vars

\* a task put back at the bound waits behind a later one that has been admitted
C19_Witness ==
    \E a \in DOMAIN tasks : \E b \in DOMAIN tasks :
        /\ a < b
        /\ run[a].pc = "queued"
        /\ run[b].pc # "queued"

InQueueTimes(t) ==
    Cardinality({k \in 1..Len(execution_queue) : execution_queue[k] = t})

\* task t is in exactly one place
Placed(t) ==
    \/ run[t].pc = "queued" /\ InQueueTimes(t) = 1 /\ t \notin running_tasks
    \/ /\ run[t].pc \in {"spawned", "await", "spin"}
       /\ InQueueTimes(t) = 0 /\ t \in running_tasks
    \/ run[t].pc = "done" /\ InQueueTimes(t) = 0 /\ t \notin running_tasks

\* C20: every created task is either once in the queue, or registered as
\* running, or finished, and nothing else is queued or registered (the loop
\* holds a task only inside one uninterrupted step); a task is handed to
\* execute_task only from the queue and never again.
C20_TaskInExactlyOnePlace ==
    /\ [](/\ Len(run) = Len(tasks)
          /\ running_tasks \subseteq DOMAIN tasks
          /\ \A k \in 1..Len(execution_queue) : execution_queue[k] \in DOMAIN tasks
          /\ \A t \in DOMAIN tasks : Placed(t))
    /\ [][\A t \in DOMAIN tasks :
             /\ (run'[t].pc = "spawned" /\ run[t].pc # "spawned") => run[t].pc = "queued"
             /\ run'[t].pc = "queued" => run[t].pc = "queued"]_vars

\* the loop has put a task back: it waits in the queue while another runs
C20_Witness ==
    /\ loop_pc = "sleep"
    /\ execution_queue # <<>>
    /\ running_tasks # {}
    /\ \A t \in DOMAIN tasks : Placed(t)

\* C21: with finitely many tasks whose runs all end, a task waiting in the
\* queue is eventually registered by the loop, also after it was put back
\* at the bound behind later tasks.
C21_QueuedTaskEventuallyRegistered ==
    \A t \in 1..MaxQueued :
        (t \in DOMAIN tasks /\ run[t].pc = "queued")
            ~> (t \in DOMAIN tasks /\ run[t].pc # "queued" /\ InQueueTimes(t) = 0)

\* a task that was put back and overtaken by a later one is registered
\* after the later one has finished
C21_Witness ==
    \E a \in DOMAIN tasks : \E b \in DOMAIN tasks :
        /\ a < b
        /\ run[b].pc = "done"
        /\ run[a].pc = "spawned"
        /\ a \in running_tasks

====
